---- MODULE Spec2Model ----
(***************************************************************************)
(* CodeToImage: conversion of one source file into a self-contained HTML   *)
(* page.  Two front ends share the transform: the command-line script      *)
(* src/src/highlight.py and the drag-and-drop window                       *)
(* src/src/gui_highlighter.py.  A path is a sequence of one-character      *)
(* strings, so that the string operations of the code (rfind, endswith,    *)
(* slicing, splitting on "/") are computed and not assumed.                *)
(***************************************************************************)
EXTENDS Integers, Sequences, FiniteSets, TLC

\* Longest stem drawn for the final component of an input path.
MaxNameLen == 2
\* How many times a produced page may be fed back as the input of a conversion.
MaxDepth == 2

VARIABLES
    arg,      \* the path the user hands to the front end in this run
    mode,     \* which program runs: "cli" (highlight.py) or "gui" (gui_highlighter.py)
    fs,       \* the files of the file system: resolved location -> content
    status,   \* HighlighterWindow.status_label text
    dzstyle,  \* DropZoneWidget style sheet / title: "normal" or "drag_over"
    window,   \* "open", or "crashed" once an exception has left a Qt handler
    last,     \* what the last operation did (arguments, output, dialogs, file accesses)
    first     \* the first successful conversion of the run: the operation and the page

vars == <<arg, mode, fs, status, dzstyle, window, last, first>>

----------------------------------------------------------------------------
\* Strings as character sequences

\* str.rfind(c): the last index of c in s, 0 when absent (1-based)
RFind(s, c) ==
    LET hits == {i \in 1..Len(s) : s[i] = c}
    IN  IF hits = {} THEN 0 ELSE CHOOSE i \in hits : \A j \in hits : j <= i

\* str.endswith(t)
EndsWith(s, t) ==
    /\ Len(s) >= Len(t)
    /\ SubSeq(s, Len(s) - Len(t) + 1, Len(s)) = t

\* s[i:] of Python, i 1-based here
From(s, i) == SubSeq(s, i, Len(s))

\* str.split("/")
RECURSIVE SplitSlash(_)
SplitSlash(s) ==
    LET hits == {i \in 1..Len(s) : s[i] = "/"}
    IN  IF hits = {} THEN <<s>>
        ELSE LET i == CHOOSE k \in hits : \A j \in hits : k <= j
             IN  <<SubSeq(s, 1, i - 1)>> \o SplitSlash(From(s, i + 1))

\* "/".join(parts)
RECURSIVE JoinSlash(_)
JoinSlash(parts) ==
    IF parts = <<>> THEN <<>>
    ELSE IF Len(parts) = 1 THEN parts[1]
    ELSE parts[1] \o <<"/">> \o JoinSlash(Tail(parts))

DOT == <<".">>
DOTDOT == <<".", ".">>
PY == <<".", "p", "y">>
HTML == <<".", "h", "t", "m", "l">>

\* os.path.basename on POSIX: everything after the last "/"
Basename(p) == From(p, RFind(p, "/") + 1)

\* pathlib.PurePosixPath(p).parts for a relative path: the components between
\* slashes, with empty components and "." components dropped (".." is kept)
PathParts(p) == SelectSeq(SplitSlash(p), LAMBDA c : c /= <<>> /\ c /= DOT)

\* PurePath.name
PathName(p) ==
    LET parts == PathParts(p)
    IN  IF parts = <<>> THEN <<>> ELSE parts[Len(parts)]

\* PurePath.suffix: name[i:] when 0 < i < len(name) - 1 for i = name.rfind("."), else ""
PathSuffix(p) ==
    LET name == PathName(p)
        i == RFind(name, ".")
    IN  IF 1 < i /\ i < Len(name) THEN From(name, i) ELSE <<>>

\* str(PurePath): the parts joined by "/", "." when there is none
PathStr(parts) == IF parts = <<>> THEN DOT ELSE JoinSlash(parts)

\* with_suffix gone wrong: the new suffix is added and the old one is kept
WithSuffix_Append(p, suffix) ==
    LET parts == PathParts(p)
        name == PathName(p)
    IN  IF name = <<>>
        THEN [exc |-> "ValueError", path |-> <<>>]
        ELSE [exc |-> "none",
              path |-> PathStr(SubSeq(parts, 1, Len(parts) - 1) \o <<name \o suffix>>)]

\* Path(p).with_suffix(suffix), then str(): ValueError on an empty name; the
\* old suffix, when there is one, is cut off the name before the new one is added
WithSuffix(p, suffix) ==
    LET parts == PathParts(p)
        name == PathName(p)
        old == PathSuffix(p)
        stem == IF old = <<>> THEN name ELSE SubSeq(name, 1, Len(name) - Len(old))
    IN  IF name = <<>>
        THEN [exc |-> "ValueError", path |-> <<>>]
        ELSE [exc |-> "none",
              path |-> PathStr(SubSeq(parts, 1, Len(parts) - 1) \o <<stem \o suffix>>)]

----------------------------------------------------------------------------
\* The inputs of a run

NameChars == {"a", "."}
\* A file name with a character that HTML reserves
ReservedNames == {<<"<">>}
Names == UNION {[1..n -> NameChars] : n \in 1..MaxNameLen} \cup ReservedNames
Prefixes == {<<>>, <<".", "/">>, <<"d", "/">>}
Suffixes == {<<>>, PY, HTML}
\* The paths a user can hand over; the empty path is what a cancelled file
\* dialog and a dropped non-local URL give
Paths == {pre \o n \o suf : pre \in Prefixes, n \in Names, suf \in Suffixes} \cup {<<>>}

\* output_file=None of generate_html
None == <<"None">>
\* The explicit output path tried: in the directory d, without ".html"
ExplicitOutputs == {<<"d", "/", "o", ".", "t">>}

\* The text of a source file
SourceTexts == {"x = 1"}

----------------------------------------------------------------------------
\* The file system.  The working directory holds the directory d; a file is
\* known by its resolved location, the sequence of directory entries that
\* leads to it from the working directory.

\* What the operating system makes of a path: empty and "." components are
\* skipped, ".." steps back to the parent
RECURSIVE Walk(_, _)
Walk(comps, at) ==
    IF comps = <<>> THEN at
    ELSE LET c == Head(comps)
         IN  IF c = <<>> \/ c = DOT THEN Walk(Tail(comps), at)
             ELSE IF c = DOTDOT
             THEN Walk(Tail(comps),
                       IF at /= <<>> /\ at[Len(at)] /= DOTDOT
                       THEN SubSeq(at, 1, Len(at) - 1) ELSE Append(at, DOTDOT))
             ELSE Walk(Tail(comps), Append(at, c))

Resolve(p) == Walk(SplitSlash(p), <<>>)

IsDir(loc) == loc = <<>> \/ loc = <<DOTDOT>> \/ loc = <<<<"d">>>>

\* os.path.exists
Exists(f, p) == p /= <<>> /\ (IsDir(Resolve(p)) \/ Resolve(p) \in DOMAIN f)

\* File contents
Source(text) == [kind |-> "source", text |-> text]
Undecodable == [kind |-> "undecodable"]
InitialContents == {Source(t) : t \in SourceTexts} \cup {Undecodable}

\* How many conversions a content has been through
RECURSIVE Depth(_)
Depth(c) == IF c.kind = "html" THEN 1 + Depth(c.body.code) ELSE 0

\* open(p, 'r', encoding='utf-8') followed by read()
ReadText(f, p) ==
    IF ~Exists(f, p) THEN [exc |-> "FileNotFoundError", text |-> Undecodable]
    ELSE IF IsDir(Resolve(p)) THEN [exc |-> "IsADirectoryError", text |-> Undecodable]
    ELSE IF f[Resolve(p)].kind = "undecodable"
    THEN [exc |-> "UnicodeDecodeError", text |-> Undecodable]
    ELSE [exc |-> "none", text |-> f[Resolve(p)]]

\* What the file system can do to a write: take it, or refuse the open
\* (PermissionError)
WriteOutcomes == {"ok", "open_fails"}

\* open(p, 'w', encoding='utf-8') followed by write(): opening creates or
\* truncates the file, writing fills it
WriteText(f, p, content, wr) ==
    IF p = <<>> THEN [exc |-> "FileNotFoundError", fs |-> f]
    ELSE IF IsDir(Resolve(p)) THEN [exc |-> "IsADirectoryError", fs |-> f]
    ELSE IF wr = "open_fails" THEN [exc |-> "PermissionError", fs |-> f]
    ELSE [exc |-> "none", fs |-> (Resolve(p) :> content) @@ f]

----------------------------------------------------------------------------
\* The style sheets: MONOKAI_CSS of highlight.py and of gui_highlighter.py, line by line

CLI_MONOKAI_CSS ==
    << "/* Main style */",
       "body {",
       "    font-family: 'Fira Code', 'Consolas', 'Monaco', 'Courier New', monospace;",
       "    background-color: #272822;",
       "    color: #f8f8f2;",
       "    margin: 0;",
       "    padding: 20px;",
       "    line-height: 1.6;",
       "}",
       "",
       "/* Code container */",
       ".code-container {",
       "    background-color: #272822;",
       "    border-radius: 8px;",
       "    box-shadow: 0 4px 6px rgba(0, 0, 0, 0.3);",
       "    overflow: hidden;",
       "    max-width: 100%;",
       "    margin: 0 auto;",
       "}",
       "",
       "/* File header */",
       ".file-header {",
       "    background-color: #1e1f1c;",
       "    padding: 10px 15px;",
       "    border-bottom: 1px solid #3e3d32;",
       "    color: #75715e;",
       "    font-size: 14px;",
       "    font-weight: bold;",
       "}",
       "",
       "/* Scroll */",
       ".code-wrapper {",
       "    overflow-x: auto;",
       "    padding: 20px;",
       "}",
       "",
       "/* Table with line numbers */",
       ".highlight table {",
       "    border-spacing: 0;",
       "    border-collapse: separate;",
       "    width: 100%;",
       "}",
       "",
       ".highlight pre {",
       "    margin: 0;",
       "    padding: 0;",
       "    background: none;",
       "    font-size: 14px;",
       "}",
       "",
       "/* Line numbers */",
       ".highlight td.linenos {",
       "    padding-right: 15px;",
       "    color: #90908a;",
       "    text-align: right;",
       "    user-select: none;",
       "    border-right: 1px solid #3e3d32;",
       "}",
       "",
       ".highlight td.code {",
       "    padding-left: 15px;",
       "}",
       "",
       "/* Code highlighting styles (Monokai) */",
       ".highlight .c { color: #75715e } /* Comment */",
       ".highlight .err { color: #960050; background-color: #1e0010 } /* Error */",
       ".highlight .k { color: #66d9ef } /* Keyword */",
       ".highlight .l { color: #ae81ff } /* Literal */",
       ".highlight .n { color: #f8f8f2 } /* Name */",
       ".highlight .o { color: #f92672 } /* Operator */",
       ".highlight .p { color: #f8f8f2 } /* Punctuation */",
       ".highlight .cm { color: #75715e } /* Comment.Multiline */",
       ".highlight .cp { color: #75715e } /* Comment.Preproc */",
       ".highlight .c1 { color: #75715e } /* Comment.Single */",
       ".highlight .cs { color: #75715e } /* Comment.Special */",
       ".highlight .ge { font-style: italic } /* Generic.Emph */",
       ".highlight .gs { font-weight: bold } /* Generic.Strong */",
       ".highlight .kc { color: #66d9ef } /* Keyword.Constant */",
       ".highlight .kd { color: #66d9ef } /* Keyword.Declaration */",
       ".highlight .kn { color: #f92672 } /* Keyword.Namespace */",
       ".highlight .kp { color: #66d9ef } /* Keyword.Pseudo */",
       ".highlight .kr { color: #66d9ef } /* Keyword.Reserved */",
       ".highlight .kt { color: #66d9ef } /* Keyword.Type */",
       ".highlight .ld { color: #e6db74 } /* Literal.Date */",
       ".highlight .m { color: #ae81ff } /* Literal.Number */",
       ".highlight .s { color: #e6db74 } /* Literal.String */",
       ".highlight .na { color: #a6e22e } /* Name.Attribute */",
       ".highlight .nb { color: #f8f8f2 } /* Name.Builtin */",
       ".highlight .nc { color: #a6e22e } /* Name.Class */",
       ".highlight .no { color: #66d9ef } /* Name.Constant */",
       ".highlight .nd { color: #a6e22e } /* Name.Decorator */",
       ".highlight .ni { color: #f8f8f2 } /* Name.Entity */",
       ".highlight .ne { color: #a6e22e } /* Name.Exception */",
       ".highlight .nf { color: #a6e22e } /* Name.Function */",
       ".highlight .nl { color: #f8f8f2 } /* Name.Label */",
       ".highlight .nn { color: #f8f8f2 } /* Name.Namespace */",
       ".highlight .nx { color: #a6e22e } /* Name.Other */",
       ".highlight .py { color: #f8f8f2 } /* Name.Property */",
       ".highlight .nt { color: #f92672 } /* Name.Tag */",
       ".highlight .nv { color: #f8f8f2 } /* Name.Variable */",
       ".highlight .ow { color: #f92672 } /* Operator.Word */",
       ".highlight .w { color: #f8f8f2 } /* Text.Whitespace */",
       ".highlight .mf { color: #ae81ff } /* Literal.Number.Float */",
       ".highlight .mh { color: #ae81ff } /* Literal.Number.Hex */",
       ".highlight .mi { color: #ae81ff } /* Literal.Number.Integer */",
       ".highlight .mo { color: #ae81ff } /* Literal.Number.Oct */",
       ".highlight .sb { color: #e6db74 } /* Literal.String.Backtick */",
       ".highlight .sc { color: #e6db74 } /* Literal.String.Char */",
       ".highlight .sd { color: #e6db74 } /* Literal.String.Doc */",
       ".highlight .s2 { color: #e6db74 } /* Literal.String.Double */",
       ".highlight .se { color: #ae81ff } /* Literal.String.Escape */",
       ".highlight .sh { color: #e6db74 } /* Literal.String.Heredoc */",
       ".highlight .si { color: #e6db74 } /* Literal.String.Interpol */",
       ".highlight .sx { color: #e6db74 } /* Literal.String.Other */",
       ".highlight .sr { color: #e6db74 } /* Literal.String.Regex */",
       ".highlight .s1 { color: #e6db74 } /* Literal.String.Single */",
       ".highlight .ss { color: #e6db74 } /* Literal.String.Symbol */",
       ".highlight .bp { color: #f8f8f2 } /* Name.Builtin.Pseudo */",
       ".highlight .vc { color: #f8f8f2 } /* Name.Variable.Class */",
       ".highlight .vg { color: #f8f8f2 } /* Name.Variable.Global */",
       ".highlight .vi { color: #f8f8f2 } /* Name.Variable.Instance */",
       ".highlight .il { color: #ae81ff } /* Literal.Number.Integer.Long */" >>

GUI_MONOKAI_CSS ==
    << "/* Main style */",
       "body {",
       "    font-family: 'Fira Code', 'Consolas', 'Monaco', 'Courier New', monospace;",
       "    background-color: #272822;",
       "    color: #f8f8f2;",
       "    margin: 0;",
       "    padding: 20px;",
       "    line-height: 1.6;",
       "}",
       "",
       "/* Code container */",
       ".code-container {",
       "    background-color: #272822;",
       "    border-radius: 8px;",
       "    box-shadow: 0 4px 6px rgba(0, 0, 0, 0.3);",
       "    overflow: hidden;",
       "    max-width: 100%;",
       "    margin: 0 auto;",
       "}",
       "",
       "/* File header */",
       ".file-header {",
       "    background-color: #1e1f1c;",
       "    padding: 10px 15px;",
       "    border-bottom: 1px solid #3e3d32;",
       "    color: #75715e;",
       "    font-size: 14px;",
       "    font-weight: bold;",
       "}",
       "",
       "/* Scroll */",
       ".code-wrapper {",
       "    overflow-x: auto;",
       "    padding: 20px;",
       "}",
       "",
       "/* Table with line numbers */",
       ".highlight table {",
       "    border-spacing: 0;",
       "    border-collapse: separate;",
       "    width: 100%;",
       "}",
       "",
       ".highlight pre {",
       "    margin: 0;",
       "    padding: 0;",
       "    background: none;",
       "    font-size: 14px;",
       "}",
       "",
       "/* Line numbers */",
       ".highlight td.linenos {",
       "    padding-right: 15px;",
       "    color: #90908a;",
       "    text-align: right;",
       "    user-select: none;",
       "    border-right: 1px solid #3e3d32;",
       "}",
       "",
       ".highlight td.code {",
       "    padding-left: 15px;",
       "}",
       "",
       "/* Code highlighting styles (Monokai) */",
       ".highlight .c { color: #75715e }",
       ".highlight .err { color: #960050; background-color: #1e0010 }",
       ".highlight .k { color: #66d9ef }",
       ".highlight .l { color: #ae81ff }",
       ".highlight .n { color: #f8f8f2 }",
       ".highlight .o { color: #f92672 }",
       ".highlight .p { color: #f8f8f2 }",
       ".highlight .cm { color: #75715e }",
       ".highlight .cp { color: #75715e }",
       ".highlight .c1 { color: #75715e }",
       ".highlight .cs { color: #75715e }",
       ".highlight .ge { font-style: italic }",
       ".highlight .gs { font-weight: bold }",
       ".highlight .kc { color: #66d9ef }",
       ".highlight .kd { color: #66d9ef }",
       ".highlight .kn { color: #f92672 }",
       ".highlight .kp { color: #66d9ef }",
       ".highlight .kr { color: #66d9ef }",
       ".highlight .kt { color: #66d9ef }",
       ".highlight .ld { color: #e6db74 }",
       ".highlight .m { color: #ae81ff }",
       ".highlight .s { color: #e6db74 }",
       ".highlight .na { color: #a6e22e }",
       ".highlight .nb { color: #f8f8f2 }",
       ".highlight .nc { color: #a6e22e }",
       ".highlight .no { color: #66d9ef }",
       ".highlight .nd { color: #a6e22e }",
       ".highlight .ni { color: #f8f8f2 }",
       ".highlight .ne { color: #a6e22e }",
       ".highlight .nf { color: #a6e22e }",
       ".highlight .nl { color: #f8f8f2 }",
       ".highlight .nn { color: #f8f8f2 }",
       ".highlight .nx { color: #a6e22e }",
       ".highlight .py { color: #f8f8f2 }",
       ".highlight .nt { color: #f92672 }",
       ".highlight .nv { color: #f8f8f2 }",
       ".highlight .ow { color: #f92672 }",
       ".highlight .w { color: #f8f8f2 }",
       ".highlight .mf { color: #ae81ff }",
       ".highlight .mh { color: #ae81ff }",
       ".highlight .mi { color: #ae81ff }",
       ".highlight .mo { color: #ae81ff }",
       ".highlight .sb { color: #e6db74 }",
       ".highlight .sc { color: #e6db74 }",
       ".highlight .sd { color: #e6db74 }",
       ".highlight .s2 { color: #e6db74 }",
       ".highlight .se { color: #ae81ff }",
       ".highlight .sh { color: #e6db74 }",
       ".highlight .si { color: #e6db74 }",
       ".highlight .sx { color: #e6db74 }",
       ".highlight .sr { color: #e6db74 }",
       ".highlight .s1 { color: #e6db74 }",
       ".highlight .ss { color: #e6db74 }",
       ".highlight .bp { color: #f8f8f2 }",
       ".highlight .vc { color: #f8f8f2 }",
       ".highlight .vg { color: #f8f8f2 }",
       ".highlight .vi { color: #f8f8f2 }",
       ".highlight .il { color: #ae81ff }" >>

\* The MONOKAI_CSS global of a module
MonokaiCss(module) == IF module = "highlight" THEN CLI_MONOKAI_CSS ELSE GUI_MONOKAI_CSS

----------------------------------------------------------------------------
\* The transform

\* A Python exception: its class, its message, the path the message names
Exc(type, msg, path) == [type |-> type, msg |-> msg, path |-> path]
NoExc == Exc("none", "", <<>>)
\* The exception open() and read() raise: the message is the system's
OsExc(type, path) == Exc(type, "errno", path)

NoDoc == [kind |-> "none"]

\* What the highlighting library can do: return the markup, or fail inside
LexOutcomes == {"ok", "raises"}

\* The formatter options kept in an object shared by the conversions of a
\* run: the hl_lines list is not empty any more once a page has been made
Highlight_Shared(code) ==
    [lexer |-> "PythonLexer", style |-> "monokai", linenos |-> TRUE,
     cssclass |-> "highlight", hl_lines |-> IF first.set THEN <<1>> ELSE <<>>,
     code |-> code]

\* highlight(code, PythonLexer(), HtmlFormatter(style='monokai', linenos=True,
\* cssclass='highlight', hl_lines=[])): the library's markup for the code,
\* a function of the code and of the options alone
Highlight(code) ==
    [lexer |-> "PythonLexer", style |-> "monokai", linenos |-> TRUE,
     cssclass |-> "highlight", hl_lines |-> <<>>, code |-> code]

\* The f-string html_template: the fixed markup with four holes, the title
\* and the file header (both the base name, substituted as it is), the style
\* sheet and the code.  The page keeps the style sheet by the name of the
\* module whose MONOKAI_CSS it is; MonokaiCss gives its text.
HtmlTemplate(name, css, highlighted_code) ==
    [kind |-> "html", title |-> name, css |-> css, header |-> name,
     body |-> highlighted_code]

\* The result of generate_html: the exception raised or the path returned,
\* the file system it leaves, the files it opened and the page written
Gen(exc, ret, f, reads, writes, doc) ==
    [exc |-> exc, ret |-> ret, fs |-> f, reads |-> reads, writes |-> writes,
     doc |-> doc]

\* Lines 198-202 of generate_html, once the file was opened and written (w)
Saved(input_file, out, html_template, w) ==
    IF w.exc /= "none"
    THEN Gen(OsExc(w.exc, out), None, w.fs, <<input_file>>, <<out>>, NoDoc)
    ELSE Gen(NoExc, out, w.fs, <<input_file>>, <<out>>, html_template)

\* Lines 194-202 of generate_html: the output path is the one given or, for
\* None, the derived one (with_suffix raises ValueError on an empty name)
CliSave(f, input_file, output_file, wr, html_template, derived) ==
    IF output_file /= None
    THEN Saved(input_file, output_file, html_template,
               WriteText(f, output_file, html_template, wr))
    ELSE IF derived.exc /= "none"
    THEN Gen(Exc(derived.exc, "empty name", input_file), None, f, <<input_file>>,
             <<>>, NoDoc)
    ELSE Saved(input_file, derived.path, html_template,
               WriteText(f, derived.path, html_template, wr))

\* generate_html with the output opened first: open(output_file, 'w') comes
\* before the read, so a conversion that fails later leaves an empty file there
CliRender_WriteFirst(f, input_file, output_file, lex, wr, rd) ==
    LET out == IF output_file /= None THEN output_file
               ELSE WithSuffix(input_file, HTML).path
    IN  IF rd.exc /= "none" \/ lex = "raises"
        THEN Gen(IF rd.exc /= "none" THEN OsExc(rd.exc, input_file)
                 ELSE Exc("Exception", "pygments", <<>>),
                 None, WriteText(f, out, Source(""), wr).fs,
                 <<input_file>>, <<out>>, NoDoc)
        ELSE CliSave(f, input_file, output_file, wr,
                     HtmlTemplate(Basename(input_file), "highlight", Highlight(rd.text)),
                     WithSuffix(input_file, HTML))

\* Lines 157-202 of generate_html, once the file was opened and read (rd)
CliRender(f, input_file, output_file, lex, wr, rd) ==
    IF rd.exc /= "none"
    THEN Gen(OsExc(rd.exc, input_file), None, f, <<input_file>>, <<>>, NoDoc)
    ELSE IF lex = "raises"
    THEN Gen(Exc("Exception", "pygments", <<>>), None, f, <<input_file>>, <<>>, NoDoc)
    ELSE CliSave(f, input_file, output_file, wr,
                 HtmlTemplate(Basename(input_file), "highlight", Highlight(rd.text)),
                 WithSuffix(input_file, HTML))

\* highlight.generate_html(input_file, output_file)
CliGenerateHtml(f, input_file, output_file, lex, wr) ==
    IF ~Exists(f, input_file)
    THEN Gen(Exc("FileNotFoundError", "File '{input_file}' not found", input_file),
             None, f, <<>>, <<>>, NoDoc)
    ELSE CliRender(f, input_file, output_file, lex, wr, ReadText(f, input_file))

\* A line of standard output: its fixed text and the value formatted into it
Line(text, path, exc) == [text |-> text, path |-> path, exc |-> exc]

\* sys.argv[0]
PROG == <<"highlight.py">>

\* The exception classes that derive from Exception (every one the model raises)
ExceptionClasses ==
    {"FileNotFoundError", "IsADirectoryError", "UnicodeDecodeError", "PermissionError",
     "OSError", "ValueError", "Exception"}

\* main without its `except Exception` clause
CliExceptClause_NoCatchAll(e) == IF e.type = "FileNotFoundError" THEN 1 ELSE 0

\* Which except clause of main takes an exception: 1 for
\* `except FileNotFoundError as e`, 2 for `except Exception as e`, 0 for none
CliExceptClause(e) ==
    IF e.type = "FileNotFoundError" THEN 1
    ELSE IF e.type \in ExceptionClasses THEN 2
    ELSE 0

\* The argument check made stricter: anything but one argument is wrong
WrongArgCount_Strict(argv) == Len(argv) /= 2

\* `if len(sys.argv) < 2` of main
WrongArgCount(argv) == Len(argv) < 2

\* main handing a second argument on as the output path
MainOutputArg_Second(argv) == IF Len(argv) >= 3 THEN argv[3] ELSE None

\* The output_file of the call generate_html(input_file) of main: the
\* parameter is left to its default, whatever follows the input on the
\* command line
MainOutputArg(argv) == None

\* Lines 216-223 of main, once generate_html has returned or raised (g)
CliReport(g) ==
    IF g.exc.type = "none"
    THEN [stdout |-> <<Line("[+] HTML file successfully created: {output_file}", g.ret, NoExc),
                       Line("[+] Open it in a browser to view", <<>>, NoExc)>>,
          exit |-> 0, called |-> TRUE, raised |-> NoExc, gen |-> g]
    ELSE IF CliExceptClause(g.exc) = 1
    THEN [stdout |-> <<Line("[-] Error: {e}", g.exc.path, g.exc)>>,
          exit |-> 1, called |-> TRUE, raised |-> NoExc, gen |-> g]
    ELSE IF CliExceptClause(g.exc) = 2
    THEN [stdout |-> <<Line("[-] An error occurred: {e}", g.exc.path, g.exc)>>,
          exit |-> 1, called |-> TRUE, raised |-> NoExc, gen |-> g]
    ELSE [stdout |-> <<>>, exit |-> 1, called |-> TRUE, raised |-> g.exc, gen |-> g]

\* highlight.main() under sys.argv = argv: what it prints, its exit code
\* (falling off the end of main is exit code 0, an exception that leaves main
\* is a traceback and exit code 1) and what generate_html did
CliMain(f, argv, lex, wr) ==
    IF WrongArgCount(argv)
    THEN [stdout |-> <<Line("Usage: python highlight.py <path_to_file.py>", <<>>, NoExc),
                       Line("Example: python highlight.py main.py", <<>>, NoExc)>>,
          exit |-> 1, called |-> FALSE, raised |-> NoExc,
          gen |-> Gen(NoExc, None, f, <<>>, <<>>, NoDoc)]
    ELSE CliReport(CliGenerateHtml(f, argv[2], MainOutputArg(argv), lex, wr))

----------------------------------------------------------------------------
\* The window (gui_highlighter.py)

\* Lines 439-446 of generate_html: the output path is always the derived one
GuiSave(f, input_file, wr, html_template, output_file) ==
    IF output_file.exc /= "none"
    THEN Gen(Exc(output_file.exc, "empty name", input_file), None, f, <<input_file>>,
             <<>>, NoDoc)
    ELSE Saved(input_file, output_file.path, html_template,
               WriteText(f, output_file.path, html_template, wr))

\* Lines 406-446 of generate_html, once the file was opened and read (rd)
GuiRender(f, input_file, lex, wr, rd) ==
    IF rd.exc /= "none"
    THEN Gen(OsExc(rd.exc, input_file), None, f, <<input_file>>, <<>>, NoDoc)
    ELSE IF lex = "raises"
    THEN Gen(Exc("Exception", "pygments", <<>>), None, f, <<input_file>>, <<>>, NoDoc)
    ELSE GuiSave(f, input_file, wr,
                 HtmlTemplate(Basename(input_file), "gui_highlighter", Highlight(rd.text)),
                 WithSuffix(input_file, HTML))

\* HighlighterWindow.generate_html(input_file)
GuiGenerateHtml(f, input_file, lex, wr) ==
    GuiRender(f, input_file, lex, wr, ReadText(f, input_file))

\* sys.platform
Platforms == {"win32", "darwin", "linux"}
\* What asking the system to open a file can come to: the handler starts; the
\* launcher runs and exits with an error; the launcher program is not installed
\* (subprocess.run raises FileNotFoundError); the system call fails (OSError)
LaunchOutcomes == {"started", "exit_nonzero", "no_launcher", "os_error"}
LaunchOutcomesOf(platform) ==
    IF platform = "win32" THEN {"started", "os_error"} ELSE LaunchOutcomes

\* HighlighterWindow.open_in_browser(file_path): os.startfile on win32,
\* subprocess.run(['open', ...]) on darwin, subprocess.run(['xdg-open', ...])
\* elsewhere; the return code of the launcher is not looked at
OpenInBrowser(file_path, platform, outcome) ==
    LET command == IF platform = "win32" THEN "os.startfile"
                   ELSE IF platform = "darwin" THEN "open" ELSE "xdg-open"
        request == [command |-> command, path |-> file_path, outcome |-> outcome]
    IN  IF outcome = "no_launcher"
        THEN [exc |-> OsExc("FileNotFoundError", <<command>>), launches |-> <<request>>]
        ELSE IF outcome = "os_error"
        THEN [exc |-> OsExc("OSError", file_path), launches |-> <<request>>]
        ELSE [exc |-> NoExc, launches |-> <<request>>]

\* A dialog of QMessageBox: its kind, its fixed text, the value shown in it
Dialog(kind, text, path) == [kind |-> kind, text |-> text, path |-> path]

\* The status_label texts
StatusReady == [text |-> "Ready", path |-> <<>>]
StatusProcessing(p) == [text |-> "Processing file: {basename}", path |-> Basename(p)]
StatusCreated(p) == [text |-> "Successfully created: {basename}", path |-> Basename(p)]
StatusNotFound == [text |-> "Error: file not found", path |-> <<>>]
StatusError == [text |-> "Error during processing", path |-> <<>>]

\* process_file without its `except Exception` clause
GuiExceptClause_NoCatchAll(e) == IF e.type = "FileNotFoundError" THEN 1 ELSE 0

\* Which except clause of process_file takes an exception: 1 for
\* `except FileNotFoundError`, 2 for `except Exception as e`, 0 for none
GuiExceptClause(e) ==
    IF e.type = "FileNotFoundError" THEN 1
    ELSE IF e.type \in ExceptionClasses THEN 2
    ELSE 0

\* The end of process_file: e is the exception raised in the try block (none
\* when it ran to its end), shown and launches what the block did before;
\* `raised` is the exception that leaves the method
ProcessFileExcept(file_path, g, shown, launches, e) ==
    IF e.type = "none"
    THEN [gen |-> g, status |-> StatusCreated(g.ret), dialogs |-> shown,
          launches |-> launches, raised |-> NoExc]
    ELSE IF GuiExceptClause(e) = 1
    THEN [gen |-> g, status |-> StatusNotFound,
          dialogs |-> Append(shown, Dialog("critical", "File not found", <<>>)),
          launches |-> launches, raised |-> NoExc]
    ELSE IF GuiExceptClause(e) = 2
    THEN [gen |-> g, status |-> StatusError,
          dialogs |-> Append(shown, Dialog("critical", "An error occurred: {e}", e.path)),
          launches |-> launches, raised |-> NoExc]
    ELSE [gen |-> g,
          status |-> IF g.exc.type = "none" THEN StatusCreated(g.ret)
                     ELSE StatusProcessing(file_path),
          dialogs |-> shown, launches |-> launches, raised |-> e]

\* Lines 379-391 of process_file, once open_in_browser has returned or raised
\* (opened): the question dialog was shown
ProcessFileOpened(file_path, g, opened) ==
    ProcessFileExcept(file_path, g,
        <<Dialog("question",
                 "HTML file successfully created: {output_file} Open it in browser?",
                 g.ret)>>,
        opened.launches, opened.exc)

\* Lines 377-398 of process_file, once generate_html has returned or raised
\* (g); `reply` is the user's answer to the question dialog
ProcessFileGenerated(file_path, g, reply, platform, outcome) ==
    IF g.exc.type /= "none"
    THEN ProcessFileExcept(file_path, g, <<>>, <<>>, g.exc)
    ELSE ProcessFileOpened(file_path, g,
             IF reply = "Yes" THEN OpenInBrowser(g.ret, platform, outcome)
             ELSE [exc |-> NoExc, launches |-> <<>>])

\* HighlighterWindow.process_file(file_path)
ProcessFile(f, file_path, lex, wr, reply, platform, outcome) ==
    ProcessFileGenerated(file_path, GuiGenerateHtml(f, file_path, lex, wr),
                         reply, platform, outcome)

\* A dropped URL and QUrl.toLocalFile(): the path of a file: URL, empty otherwise
FileUrl(p) == [scheme |-> "file", path |-> p]
HttpUrl == [scheme |-> "https", path |-> <<"a", ".", "p", "y">>]
ToLocalFile(url) == IF url.scheme = "file" THEN url.path ELSE <<>>

\* dropEvent without the extension check: any local file is taken
Accepted_Any(file_path) == file_path /= <<>>

\* `if file_path.endswith('.py')` of dropEvent
Accepted(file_path) == EndsWith(file_path, PY)

----------------------------------------------------------------------------
\* The state machine

Modes == {"cli", "gui"}

\* The record of an operation: what the user gave, what came out (exit code
\* and output of the script, -1 where there is none), what generate_html did,
\* the dialogs shown and the launches requested, the exception that left it
Done(op, given, exit, stdout, called, g, dialogs, launches, raised) ==
    [op |-> op, given |-> given, exit |-> exit, stdout |-> stdout, called |-> called,
     exc |-> g.exc, ret |-> g.ret, reads |-> g.reads, writes |-> g.writes,
     doc |-> g.doc, dialogs |-> dialogs, launches |-> launches,
     raised |-> raised]

NoGen(f) == Gen(NoExc, None, f, <<>>, <<>>, NoDoc)

NoFiles == [loc \in {} |-> NoDoc]

NotYet == [set |-> FALSE, op |-> "none", doc |-> NoDoc]

\* The first successful conversion of the run is kept
Remember(op, g) ==
    IF ~first.set /\ g.doc /= NoDoc
    THEN [set |-> TRUE, op |-> op, doc |-> g.doc]
    ELSE first

\* A page that has been through MaxDepth conversions is not converted again
Convertible(f, p) ==
    Resolve(p) \in DOMAIN f => Depth(f[Resolve(p)]) < MaxDepth

\* What the surroundings do to one conversion: the library, the write, the
\* user's reply to the question dialog, the platform and the launch.  A choice
\* that the conversion never comes to is not drawn: no write after a failed
\* highlighting, no launch after a failed write or the reply "No", and a
\* single choice when the input cannot be read.
Env(lex, wr, reply, platform, outcome) ==
    [lex |-> lex, wr |-> wr, reply |-> reply, platform |-> platform, outcome |-> outcome]
CliEnvs ==
    {Env("raises", "ok", "No", "linux", "started")}
    \cup {Env("ok", wr, "No", "linux", "started") : wr \in WriteOutcomes}
GuiEnvs ==
    CliEnvs \cup {Env("ok", "ok", "Yes", pf, oc) : pf \in Platforms, oc \in LaunchOutcomes}
Readable(f, p) == ReadText(f, p).exc = "none"
CliEnvsFor(f, args) ==
    IF args /= <<>> /\ Readable(f, args[1]) THEN CliEnvs
    ELSE {Env("ok", "ok", "No", "linux", "started")}
GuiEnvsFor(f, p) ==
    IF Readable(f, p)
    THEN {e \in GuiEnvs : e.outcome \in LaunchOutcomesOf(e.platform)}
    ELSE {Env("ok", "ok", "No", "linux", "started")}

Init ==
    /\ arg \in Paths
    /\ mode \in Modes
    /\ fs \in {NoFiles} \cup
              {(Resolve(arg) :> c) : c \in IF arg = <<>> \/ IsDir(Resolve(arg))
                                           THEN {} ELSE InitialContents}
    /\ status = StatusReady
    /\ dzstyle = "normal"
    /\ window = "open"
    /\ last = Done("start", <<>>, -1, <<>>, FALSE, NoGen(fs), <<>>, <<>>, NoExc)
    /\ first = NotYet

\* The command lines tried: no argument, the input, the input and more
ArgLists == {<<>>, <<arg>>} \cup {<<arg, x>> : x \in ExplicitOutputs}
            \cup {<<arg, x, x>> : x \in ExplicitOutputs}

\* python highlight.py args...: one run of the script, from start to exit
CliRun ==
    /\ mode = "cli"
    /\ Convertible(fs, arg)
    /\ \E args \in ArgLists : \E env \in CliEnvsFor(fs, args) :
          \E r \in {CliMain(fs, <<PROG>> \o args, env.lex, env.wr)} :
          /\ fs' = r.gen.fs
          /\ last' = Done("main", args, r.exit, r.stdout, r.called, r.gen, <<>>, <<>>, r.raised)
          /\ first' = Remember("main", r.gen)
    /\ UNCHANGED <<arg, mode, status, dzstyle, window>>

\* A caller of the module: highlight.generate_html(arg, output_file)
GenerateHtmlCall ==
    /\ mode = "cli"
    /\ Convertible(fs, arg)
    /\ \E output_file \in ExplicitOutputs \cup {None}, env \in CliEnvsFor(fs, <<arg>>) :
          \E g \in {CliGenerateHtml(fs, arg, output_file, env.lex, env.wr)} :
          /\ fs' = g.fs
          /\ last' = Done("generate_html", <<arg, output_file>>, -1, <<>>, TRUE, g,
                          <<>>, <<>>, g.exc)
          /\ first' = Remember("generate_html", g)
    /\ UNCHANGED <<arg, mode, status, dzstyle, window>>

\* DropZoneWidget.dragEnterEvent: set_drag_over_style when the drag has URLs
DragEnterEvent ==
    /\ mode = "gui" /\ window = "open"
    /\ \E hasUrls \in BOOLEAN :
          /\ dzstyle' = IF hasUrls THEN "drag_over" ELSE dzstyle
          /\ last' = Done("dragEnterEvent", <<>>, -1, <<>>, FALSE, NoGen(fs), <<>>, <<>>, NoExc)
    /\ UNCHANGED <<arg, mode, fs, status, window, first>>

\* DropZoneWidget.dragLeaveEvent: reset_style
DragLeaveEvent ==
    /\ mode = "gui" /\ window = "open"
    /\ dzstyle' = "normal"
    /\ last' = Done("dragLeaveEvent", <<>>, -1, <<>>, FALSE, NoGen(fs), <<>>, <<>>, NoExc)
    /\ UNCHANGED <<arg, mode, fs, status, window, first>>

\* What process_file leaves in the window
Processed(op, given, r) ==
    /\ fs' = r.gen.fs
    /\ status' = r.status
    /\ window' = IF r.raised = NoExc THEN "open" ELSE "crashed"
    /\ last' = Done(op, given, -1, <<>>, TRUE, r.gen, r.dialogs, r.launches, r.raised)
    /\ first' = Remember(op, r.gen)

\* The lists of URLs a drop can carry
UrlLists == {<<>>, <<FileUrl(arg)>>, <<HttpUrl>>, <<FileUrl(arg), FileUrl(<<"b", ".", "p", "y">>)>>}

\* DropZoneWidget.dropEvent: reset_style, then process_file for a first URL
\* whose local path ends in ".py", a warning for any other first URL
DropEvent ==
    /\ mode = "gui" /\ window = "open"
    /\ Convertible(fs, arg)
    /\ dzstyle' = "normal"
    /\ \E urls \in UrlLists :
          IF urls /= <<>>
          THEN LET file_path == ToLocalFile(urls[1]) IN
               IF Accepted(file_path)
               THEN \E env \in GuiEnvsFor(fs, file_path) :
                    \E r \in {ProcessFile(fs, file_path, env.lex, env.wr, env.reply,
                                          env.platform, env.outcome)} :
                       Processed("dropEvent", <<file_path>>, r)
               ELSE /\ last' = Done("dropEvent", <<file_path>>, -1, <<>>, FALSE, NoGen(fs),
                                    <<Dialog("warning", "Please select a file with .py extension", <<>>)>>,
                                    <<>>, NoExc)
                    /\ UNCHANGED <<fs, status, window, first>>
          ELSE /\ last' = Done("dropEvent", <<>>, -1, <<>>, FALSE, NoGen(fs), <<>>, <<>>, NoExc)
               /\ UNCHANGED <<fs, status, window, first>>
    /\ UNCHANGED <<arg, mode>>

\* HighlighterWindow.select_file: the file dialog gives a path, or the empty
\* string when it is cancelled; a path is processed whatever its extension
SelectFile ==
    /\ mode = "gui" /\ window = "open"
    /\ Convertible(fs, arg)
    /\ \E file_path \in {<<>>, arg} :
          IF file_path /= <<>>
          THEN \E env \in GuiEnvsFor(fs, file_path) :
               \E r \in {ProcessFile(fs, file_path, env.lex, env.wr, env.reply,
                                     env.platform, env.outcome)} :
                  Processed("select_file", <<file_path>>, r)
          ELSE /\ last' = Done("select_file", <<>>, -1, <<>>, FALSE, NoGen(fs), <<>>, <<>>, NoExc)
               /\ UNCHANGED <<fs, status, window, first>>
    /\ UNCHANGED <<arg, mode, dzstyle>>

Next ==
    \/ CliRun
    \/ GenerateHtmlCall
    \/ DragEnterEvent
    \/ DragLeaveEvent
    \/ DropEvent
    \/ SelectFile

Spec == Init /\ [][Next]_vars

----------------------------------------------------------------------------
\* Properties

\* The last operation was a conversion that wrote its page
Converted == last.doc /= NoDoc
\* The input path of the last operation
Input == last.given[1]
\* The last operation was a conversion by the window
GuiConversion == last.op \in {"dropEvent", "select_file"} /\ last.called
\* The directory part of a path: everything up to its last "/"
DirOf(p) == SubSeq(p, 1, RFind(p, "/"))
\* A file name without its last extension.  The extension is what begins at
\* the last "." of the name, when that "." is neither the first character (a
\* hidden file) nor the last one (an empty extension); the whole name when
\* there is no extension
StemOf(n) ==
    LET dots == {i \in 1..Len(n) : n[i] = "."}
        i == CHOOSE k \in dots : \A j \in dots : j <= k
    IN  IF dots = {} \/ i = 1 \/ i = Len(n) THEN n ELSE SubSeq(n, 1, i - 1)
\* The sibling ".html" path of an input: r names StemOf(input name) + ".html"
\* in the directory of the input
IsSiblingHtml(r, input) ==
    /\ Basename(r) = StemOf(Basename(input)) \o HTML
    /\ Resolve(DirOf(r)) = Resolve(DirOf(input))

\* C1: whenever generate_html (of either front end) has written its page, the
\* one file it opened for writing is the path it returns and holds the page;
\* with an explicit output path that path is exactly the one given; without,
\* it is the input's file name with its last extension replaced by ".html"
\* (".html" added to a name that has no extension), in the input's directory.
C1_OutputPath ==
    Converted =>
        /\ last.writes = <<last.ret>>
        /\ Resolve(last.ret) \in DOMAIN fs
        /\ fs[Resolve(last.ret)] = last.doc
        /\ IF last.op = "generate_html" /\ last.given[2] /= None
           THEN last.ret = last.given[2]
           ELSE IsSiblingHtml(last.ret, Input)

\* C1 witness: d/a.py was converted to d/a.html, and then once more to an
\* explicit output path that does not end in ".html"
C1_Witness ==
    /\ last.op = "generate_html" /\ Converted
    /\ Input = <<"d", "/", "a", ".", "p", "y">>
    /\ last.given[2] /= None /\ last.ret = last.given[2]
    /\ Resolve(<<"d", "/", "a", ".", "h", "t", "m", "l">>) \in DOMAIN fs

UsageLine == "Usage: python highlight.py <path_to_file.py>"

\* C2: every run of the script ends in exactly one of four ways: no argument,
\* usage and exit code 1; an input that does not exist, the not-found message
\* and exit code 1; another exception, its message and exit code 1; otherwise
\* exit code 0 with the output file in place and not empty.  Exit code 0
\* comes only with the output file written.
C2_ExitCodes ==
    last.op = "main" =>
        /\ last.raised = NoExc
        /\ IF last.given = <<>>
           THEN /\ last.exit = 1
                /\ last.stdout[1].text = UsageLine
           ELSE IF ~Exists(fs, Input)
           THEN /\ last.exit = 1
                /\ Len(last.stdout) = 1
                /\ last.stdout[1].text = "[-] Error: {e}"
                /\ last.stdout[1].exc.msg = "File '{input_file}' not found"
                /\ last.stdout[1].path = Input
           ELSE IF last.exc /= NoExc
           THEN /\ last.exit = 1
                /\ Len(last.stdout) = 1
                /\ last.stdout[1].text = "[-] An error occurred: {e}"
                /\ last.stdout[1].exc = last.exc
           ELSE /\ last.exit = 0
                /\ last.stdout[1].text = "[+] HTML file successfully created: {output_file}"
        /\ last.exit = 0 =>
              /\ last.writes /= <<>>
              /\ Exists(fs, last.ret)
              /\ fs[Resolve(last.ret)].kind = "html"
              /\ fs[Resolve(last.ret)] = last.doc

\* C2 witness: a run with an existing input ended with exit code 0 after an
\* earlier conversion of the run
C2_Witness ==
    /\ last.op = "main" /\ last.exit = 0 /\ Exists(fs, last.ret)
    /\ first.set /\ first.op = "generate_html"

RejectedDrop(l) == l.op = "dropEvent" /\ l.given /= <<>> /\ ~EndsWith(l.given[1], PY)

\* C4: a drop whose first item's local path does not end in ".py" shows the
\* warning dialog and nothing else, does not call process_file, opens no file
\* for reading or writing and leaves the file system and the status as they
\* were; the window stays open with the drop zone in its normal style.
C4_WrongExtensionRejected ==
    [][RejectedDrop(last') =>
          /\ Len(last'.dialogs) = 1 /\ last'.dialogs[1].kind = "warning"
          /\ ~last'.called
          /\ last'.reads = <<>> /\ last'.writes = <<>>
          /\ fs' = fs /\ status' = status
          /\ window' = "open" /\ dzstyle' = "normal"]_vars

\* C4 witness: an existing file whose name does not end in ".py" was dropped
\* and refused
C4_Witness ==
    /\ RejectedDrop(last) /\ Exists(fs, Input)
    /\ EndsWith(Input, HTML)
    /\ last.dialogs /= <<>>

\* C5: no exception leaves main's try block or process_file; a failed
\* conversion makes the script print one line with the message and exit with
\* a code other than 0, and makes the window show exactly one error dialog,
\* set an error status and stay open, so that the next file can be taken.
C5_FailureContained ==
    /\ window = "open"
    /\ last.op \in {"main", "dropEvent", "select_file"} => last.raised = NoExc
    /\ (last.op = "main" /\ last.exc /= NoExc) =>
          /\ last.exit /= 0
          /\ Len(last.stdout) = 1 /\ last.stdout[1].exc = last.exc
    /\ (GuiConversion /\ last.exc /= NoExc) =>
          /\ Len(last.dialogs) = 1 /\ last.dialogs[1].kind = "critical"
          /\ status \in {StatusNotFound, StatusError}

\* C5 witness: the window has converted a file, and a later attempt failed at
\* the write
C5_Witness ==
    /\ GuiConversion /\ last.exc.type = "PermissionError"
    /\ first.set /\ window = "open"

\* C6 as claimed: the launch is asked for only after the page was written and
\* the user said yes, and whatever becomes of it the conversion stays
\* reported as a success: the status is "Successfully created", no error
\* dialog is shown.
C6_FireAndForget ==
    last.launches /= <<>> =>
        /\ Converted
        /\ last.dialogs[1].kind = "question"
        /\ status = StatusCreated(last.ret)
        /\ \A i \in 1..Len(last.dialogs) : last.dialogs[i].kind /= "critical"

\* html.escape of one character, and of a string
EscapeChar(c) ==
    IF c = "&" THEN <<"&", "a", "m", "p", ";">>
    ELSE IF c = "<" THEN <<"&", "l", "t", ";">>
    ELSE IF c = ">" THEN <<"&", "g", "t", ";">>
    ELSE IF c = "\"" THEN <<"&", "q", "u", "o", "t", ";">>
    ELSE <<c>>
RECURSIVE HtmlEscape(_)
HtmlEscape(s) == IF s = <<>> THEN <<>> ELSE EscapeChar(Head(s)) \o HtmlEscape(Tail(s))

\* C7 as claimed: the title and the file header of a written page are the
\* HTML-escaped base name of the input, so that no "<" of the file name is in
\* the page as it is.
C7_DisplayNameEscaped ==
    Converted =>
        /\ last.doc.title = HtmlEscape(Basename(Input))
        /\ last.doc.header = HtmlEscape(Basename(Input))
        /\ \A i \in 1..Len(last.doc.title) : last.doc.title[i] /= "<"

\* C8 as claimed: a run with no argument, or with more than two, prints the
\* usage text, reads and writes nothing and exits with a code other than 0.
C8_Original ==
    (last.op = "main" /\ Len(last.given) \notin {1, 2}) =>
        /\ last.stdout[1].text = UsageLine
        /\ last.reads = <<>> /\ last.writes = <<>>
        /\ last.exit /= 0

\* C8 amended: a run with no argument prints the usage text, reads and writes
\* nothing and exits with a code other than 0; a run with arguments after the
\* input path, however many, is a conversion of its first argument and prints
\* no usage text.
C8_UsageOnlyWithoutArguments ==
    last.op = "main" =>
        IF last.given = <<>>
        THEN /\ last.stdout[1].text = UsageLine
             /\ ~last.called
             /\ last.reads = <<>> /\ last.writes = <<>>
             /\ last.exit /= 0
        ELSE /\ last.called
             /\ \A i \in 1..Len(last.stdout) : last.stdout[i].text /= UsageLine
             /\ Exists(fs, Input) => last.reads = <<Input>>

\* C8 witness: a run with three arguments converted its first argument
C8_Witness ==
    /\ last.op = "main" /\ Len(last.given) = 3 /\ Converted /\ last.exit = 0

\* The text of a page: the style sheet written out
PageText(doc) == IF doc = NoDoc THEN doc ELSE [doc EXCEPT !.css = MonokaiCss(doc.css)]

\* C9 as claimed: once a front end has written a page, the two generate_html,
\* run on the file system as it is and on the same input, fail together or
\* write the same page to the same path, from the same style sheet.
C9_SameTransform ==
    Converted =>
        \A lex \in LexOutcomes, wr \in WriteOutcomes :
            LET c == CliGenerateHtml(fs, arg, None, lex, wr)
                g == GuiGenerateHtml(fs, arg, lex, wr)
            IN  /\ (c.exc = NoExc) = (g.exc = NoExc)
                /\ c.ret = g.ret
                /\ c.writes = g.writes
                /\ PageText(c.doc) = PageText(g.doc)

C11_InputPreserved ==
    [][(/\ last'.called
        /\ ~(last'.op = "generate_html" /\ last'.given[2] /= None)
        /\ Resolve(last'.given[1]) \in DOMAIN fs)
       => /\ \A i \in DOMAIN last'.writes :
                Resolve(last'.writes[i]) /= Resolve(last'.given[1])
          /\ Resolve(last'.given[1]) \in DOMAIN fs'
          /\ fs'[Resolve(last'.given[1])] = fs[Resolve(last'.given[1])]]_vars

\* The conversion of the step could not read its input: the file is not
\* there, cannot be opened, or is not UTF-8 text
InputUnreadable == ReadText(fs, last'.given[1]).exc /= "none"
\* The conversion of the step failed in the highlighting
HighlightFailed == last'.exc = Exc("Exception", "pygments", <<>>)

\* C12: in both front ends a conversion opens a file for writing only after
\* it has read and decoded its input and highlighted the text; a conversion
\* that fails at the existence check, the read, the decoding or the
\* highlighting opens no file for writing and leaves every file, the one at
\* the output path included, as it was.
C12_WriteLast ==
    [][last'.called =>
          /\ (InputUnreadable \/ HighlightFailed) =>
                 (last'.writes = <<>> /\ fs' = fs /\ last'.doc = NoDoc)
          /\ last'.writes /= <<>> =>
                 /\ ~InputUnreadable /\ ~HighlightFailed
                 /\ last'.reads = <<last'.given[1]>>]_vars

\* C12 witness: a conversion by the window failed in the highlighting while
\* the page of an earlier conversion of the same input lay at the output path
C12_Witness ==
    /\ GuiConversion
    /\ last.exc = Exc("Exception", "pygments", <<>>)
    /\ last.writes = <<>>
    /\ first.set
    /\ Input = <<"d", "/", "a", ".", "p", "y">>
    /\ Resolve(<<"d", "/", "a", ".", "h", "t", "m", "l">>) \in DOMAIN fs
    /\ fs[Resolve(<<"d", "/", "a", ".", "h", "t", "m", "l">>)] = first.doc
====
